---- MODULE Spec2Model ----
(***************************************************************************)
(* Model of librevault's FolderGroup (src/daemon/folder/FolderGroup.cpp):  *)
(* the peer registry (attach / detach / handle_handshake), the Qt signal   *)
(* connections it creates, the tasks it posts to the event loop, and the   *)
(* fan-out of local index events (metaAdded, chunkAdded) to the engines.   *)
(* The folder runs on a single-threaded event loop, so every handler is    *)
(* one atomic action.                                                      *)
(***************************************************************************)
EXTENDS Integers, Sequences, FiniteSets, TLC

(* ---------------- bounds of the model ---------------- *)
\* handshakeSuccess connections one peer handle may accumulate
MaxConn == 2
\* connections per rcvd* signal one peer handle may accumulate
MaxMsgConn == 2
\* posted MetaUploader::handle_handshake tasks pending per peer
MaxPosted == 2

\* peer session handles offered by the transport
Peers == {"p1", "p2", "p3"}
\* all handles: the three above and one that collides with none of them
Handles == Peers \cup {"p4"}
\* three handles that can be attached together
Sessions == Handles \ {"p2"}
\* SignedMeta values MetaStorage may hold
Metas == {"m1", "m2"}
\* chunk hashes ChunkStorage may announce
Chunks == {"c1"}
\* values ChunkStorage::make_bitfield may return for a meta of one chunk
Bitfields == {<<FALSE>>, <<TRUE>>}

\* RemoteFolder::digest() of each handle: p1 and p2 are the same peer
PeerDigest(p) == CASE p = "p1" -> "d1" [] p = "p2" -> "d1" [] p = "p4" -> "d3" [] OTHER -> "d2"
\* RemoteFolder::endpoint() of each handle: p2 and p3 share an address
PeerEndpoint(p) == CASE p = "p1" -> "e1" [] p = "p2" -> "e2" [] p = "p4" -> "e3" [] OTHER -> "e2"

\* the ten per-peer protocol signals connected in handle_handshake
Messages == {"rcvdChoke", "rcvdUnchoke", "rcvdInterested", "rcvdNotInterested",
             "rcvdHaveMeta", "rcvdHaveChunk", "rcvdMetaRequest", "rcvdMetaReply",
             "rcvdBlockRequest", "rcvdBlockReply"}

VARIABLES
    remotes_,               \* QSet<RemoteFolder*> remotes_
    remotes_ready_,         \* QSet<RemoteFolder*> remotes_ready_
    p2p_folders_digests_,   \* QSet<QByteArray> p2p_folders_digests_
    p2p_folders_endpoints_, \* QSet<QPair<QHostAddress, quint16>> p2p_folders_endpoints_
    hsConn,                 \* per peer: live connections handshakeSuccess -> handle_handshake
    msgConn,                \* per peer: live connections on each rcvd* signal
    posted,                 \* per peer: posted MetaUploader::handle_handshake tasks
    lastTrack,              \* per peer: last of Downloader trackRemote / untrackRemote
    stored,                 \* metas MetaStorage::getMeta() returns
    replayPending,          \* the singleShot(0) index replay has not run yet
    indexed,                \* per meta: number of handle_indexed_meta runs
    state_pusher_,          \* QTimer* state_pusher_ is running
    purged,                 \* folder_state_purge has been called (the object is destroyed)
    everAttached,           \* handles attach has admitted at least once
    trip,                   \* the handle admitted by the last attach, and the registry before it
    op,                     \* the handler that ran last and its result
    calls                   \* outward calls and signals of the last handler, in order

vars == <<remotes_, remotes_ready_, p2p_folders_digests_, p2p_folders_endpoints_,
          hsConn, msgConn, posted, lastTrack, stored, replayPending, indexed,
          state_pusher_, purged, everAttached, trip, op, calls>>

registry == <<remotes_, remotes_ready_, p2p_folders_digests_, p2p_folders_endpoints_>>

\* the state ticker and the collector's purge flag
ticker == <<state_pusher_, purged>>

\* no attach is being followed
NoTrip == [peer |-> "-", before |-> <<>>]

\* one outward call: callee/signal name, the peer or item it is about, the peer list passed
Call(name, subject, to) == [name |-> name, subject |-> subject, to |-> to]

\* the registry as a callee or slot sees it at the moment of the call
view == [remotes |-> remotes_, ready |-> remotes_ready_,
         digests |-> p2p_folders_digests_, endpoints |-> p2p_folders_endpoints_]

\* a call or signal together with the registry at that moment
CallAt(name, subject, v) == [name |-> name, subject |-> subject, to |-> {}, view |-> v]

\* a call that passes a value (a bitfield, a JSON value) and possibly a peer list
CallArg(name, subject, arg, to) == [name |-> name, subject |-> subject, to |-> to, arg |-> arg]

\* n copies of one call, for a signal delivered over n connections
RECURSIVE Repeat(_, _)
Repeat(c, n) == IF n = 0 THEN <<>> ELSE <<c>> \o Repeat(c, n - 1)

\* FolderGroup::remotes(): snapshot of the attached handles
remotes == remotes_

(* ---------------- construction ---------------- *)
Init ==
    /\ remotes_ = {}
    /\ remotes_ready_ = {}
    /\ p2p_folders_digests_ = {}
    /\ p2p_folders_endpoints_ = {}
    /\ hsConn = [p \in Handles |-> 0]
    /\ msgConn = [p \in Handles |-> 0]
    /\ posted = [p \in Handles |-> 0]
    /\ lastTrack = [p \in Handles |-> "none"]
    /\ stored \in SUBSET Metas
    /\ replayPending = TRUE
    /\ indexed = [m \in Metas |-> 0]
    /\ state_pusher_ = TRUE
    /\ purged = FALSE
    /\ everAttached = {}
    /\ trip = NoTrip
    /\ op = [name |-> "FolderGroup", subject |-> "-", ret |-> TRUE]
    /\ calls = <<Call("folder_state_set", "secret", {})>>

(* ---------------- bool FolderGroup::attach(P2PFolder* remote) ---------------- *)
\* the duplicate test with the endpoint index forgotten
attach_rejects_no_endpoint(remote) ==
    \/ remote \in remotes_
    \/ PeerDigest(remote) \in p2p_folders_digests_

\* the duplicate test with the digest index forgotten
attach_rejects_no_digest(remote) ==
    \/ remote \in remotes_
    \/ PeerEndpoint(remote) \in p2p_folders_endpoints_

attach_rejects(remote) ==
    \/ remote \in remotes_
    \/ PeerDigest(remote) \in p2p_folders_digests_
    \/ PeerEndpoint(remote) \in p2p_folders_endpoints_

\* attach with the handshakeSuccess connection made before the duplicate test
attach_connects_first(remote) ==
    /\ hsConn[remote] < MaxConn
    /\ hsConn' = [hsConn EXCEPT ![remote] = @ + 1]
    /\ IF attach_rejects(remote)
       THEN /\ op' = [name |-> "attach", subject |-> remote, ret |-> FALSE]
            /\ calls' = <<>>
            /\ trip' = NoTrip
            /\ UNCHANGED <<registry, everAttached>>
       ELSE /\ remotes_' = remotes_ \cup {remote}
            /\ p2p_folders_endpoints_' = p2p_folders_endpoints_ \cup {PeerEndpoint(remote)}
            /\ p2p_folders_digests_' = p2p_folders_digests_ \cup {PeerDigest(remote)}
            /\ calls' = <<Call("attached", remote, {})>>
            /\ op' = [name |-> "attach", subject |-> remote, ret |-> TRUE]
            /\ everAttached' = everAttached \cup {remote}
            /\ trip' = [peer |-> remote, before |-> registry]
            /\ UNCHANGED remotes_ready_
    /\ UNCHANGED <<msgConn, posted, lastTrack, stored, replayPending, indexed, ticker>>

attach(remote) ==
    /\ hsConn[remote] < MaxConn
    /\ IF attach_rejects(remote)
       THEN /\ op' = [name |-> "attach", subject |-> remote, ret |-> FALSE]
            /\ calls' = <<>>
            /\ trip' = NoTrip
            /\ UNCHANGED <<registry, hsConn, everAttached>>
       ELSE /\ remotes_' = remotes_ \cup {remote}
            /\ p2p_folders_endpoints_' = p2p_folders_endpoints_ \cup {PeerEndpoint(remote)}
            /\ p2p_folders_digests_' = p2p_folders_digests_ \cup {PeerDigest(remote)}
            /\ hsConn' = [hsConn EXCEPT ![remote] = @ + 1]
            /\ calls' = <<Call("attached", remote, {})>>
            /\ op' = [name |-> "attach", subject |-> remote, ret |-> TRUE]
            /\ everAttached' = everAttached \cup {remote}
            /\ trip' = [peer |-> remote, before |-> registry]
            /\ UNCHANGED remotes_ready_
    /\ UNCHANGED <<msgConn, posted, lastTrack, stored, replayPending, indexed, ticker>>

(* ---------------- void FolderGroup::detach(P2PFolder* remote) ---------------- *)
\* detach that leaves the endpoint index alone
detach_keeps_endpoint(remote) ==
    /\ IF remote \notin remotes_
       THEN /\ calls' = <<>>
            /\ UNCHANGED <<registry, lastTrack>>
       ELSE /\ calls' = <<CallAt("detached", remote, view), CallAt("untrackRemote", remote, view)>>
            /\ lastTrack' = [lastTrack EXCEPT ![remote] = "untrack"]
            /\ p2p_folders_digests_' = p2p_folders_digests_ \ {PeerDigest(remote)}
            /\ remotes_' = remotes_ \ {remote}
            /\ remotes_ready_' = remotes_ready_ \ {remote}
            /\ UNCHANGED p2p_folders_endpoints_
    /\ op' = [name |-> "detach", subject |-> remote, ret |-> (remote \in remotes_)]
    /\ trip' = NoTrip
    /\ UNCHANGED <<hsConn, msgConn, posted, stored, replayPending, indexed, ticker, everAttached>>

\* detach without the early return for a handle that is not attached
detach_unguarded(remote) ==
    /\ calls' = <<CallAt("detached", remote, view), CallAt("untrackRemote", remote, view)>>
    /\ lastTrack' = [lastTrack EXCEPT ![remote] = "untrack"]
    /\ p2p_folders_digests_' = p2p_folders_digests_ \ {PeerDigest(remote)}
    /\ p2p_folders_endpoints_' = p2p_folders_endpoints_ \ {PeerEndpoint(remote)}
    /\ remotes_' = remotes_ \ {remote}
    /\ remotes_ready_' = remotes_ready_ \ {remote}
    /\ op' = [name |-> "detach", subject |-> remote, ret |-> (remote \in remotes_)]
    /\ trip' = NoTrip
    /\ UNCHANGED <<hsConn, msgConn, posted, stored, replayPending, indexed, ticker, everAttached>>

\* detach that empties the indices first and emits detached at the end
detach_emits_last(remote) ==
    /\ IF remote \notin remotes_
       THEN /\ calls' = <<>>
            /\ UNCHANGED <<registry, lastTrack>>
       ELSE /\ lastTrack' = [lastTrack EXCEPT ![remote] = "untrack"]
            /\ p2p_folders_digests_' = p2p_folders_digests_ \ {PeerDigest(remote)}
            /\ p2p_folders_endpoints_' = p2p_folders_endpoints_ \ {PeerEndpoint(remote)}
            /\ remotes_' = remotes_ \ {remote}
            /\ remotes_ready_' = remotes_ready_ \ {remote}
            /\ calls' = <<CallAt("untrackRemote", remote, view'), CallAt("detached", remote, view')>>
    /\ op' = [name |-> "detach", subject |-> remote, ret |-> (remote \in remotes_)]
    /\ trip' = NoTrip
    /\ UNCHANGED <<hsConn, msgConn, posted, stored, replayPending, indexed, ticker, everAttached>>

detach(remote) ==
    /\ IF remote \notin remotes_
       THEN /\ calls' = <<>>
            /\ UNCHANGED <<registry, lastTrack>>
       ELSE /\ calls' = <<CallAt("detached", remote, view), CallAt("untrackRemote", remote, view)>>
            /\ lastTrack' = [lastTrack EXCEPT ![remote] = "untrack"]
            /\ p2p_folders_digests_' = p2p_folders_digests_ \ {PeerDigest(remote)}
            /\ p2p_folders_endpoints_' = p2p_folders_endpoints_ \ {PeerEndpoint(remote)}
            /\ remotes_' = remotes_ \ {remote}
            /\ remotes_ready_' = remotes_ready_ \ {remote}
    /\ op' = [name |-> "detach", subject |-> remote, ret |-> (remote \in remotes_)]
    /\ trip' = NoTrip
    /\ UNCHANGED <<hsConn, msgConn, posted, stored, replayPending, indexed, ticker, everAttached>>

(* ---------------- void FolderGroup::handle_handshake(RemoteFolder* origin) ---------------- *)
\* one run of handle_handshake on the part of the state it touches
handle_handshake(st, origin) ==
    [ready   |-> st.ready \cup {origin},
     track   |-> [st.track EXCEPT ![origin] = "track"],
     msgConn |-> [st.msgConn EXCEPT ![origin] = @ + 1],
     posted  |-> [st.posted EXCEPT ![origin] = @ + 1],
     calls   |-> st.calls \o <<Call("trackRemote", origin, {}),
                               Call("post_handle_handshake", origin, {})>>]

\* delivery that reaches handle_handshake even when nothing is connected
deliver_handshake_unconnected(st, origin, n) ==
    IF n <= 1 THEN handle_handshake(st, origin)
    ELSE handle_handshake(handle_handshake(st, origin), origin)

\* Qt invokes the slot once per live connection of the emitted signal
RECURSIVE deliver_handshake(_, _, _)
deliver_handshake(st, origin, n) ==
    IF n = 0 THEN st ELSE deliver_handshake(handle_handshake(st, origin), origin, n - 1)

\* the transport's session object emits handshakeSuccess
handshakeSuccess(origin) ==
    /\ msgConn[origin] + hsConn[origin] <= MaxMsgConn
    /\ posted[origin] + hsConn[origin] <= MaxPosted
    /\ LET st == deliver_handshake([ready |-> remotes_ready_, track |-> lastTrack,
                                    msgConn |-> msgConn, posted |-> posted, calls |-> <<>>],
                                   origin, hsConn[origin])
       IN /\ remotes_ready_' = st.ready
          /\ lastTrack' = st.track
          /\ msgConn' = st.msgConn
          /\ posted' = st.posted
          /\ calls' = st.calls
    /\ op' = [name |-> "handshakeSuccess", subject |-> origin, ret |-> (hsConn[origin] > 0)]
    /\ trip' = IF trip.peer = origin THEN trip ELSE NoTrip
    /\ UNCHANGED <<remotes_, p2p_folders_digests_, p2p_folders_endpoints_, hsConn,
                   stored, replayPending, indexed, ticker, everAttached>>

\* the task posted by QTimer::singleShot(0, meta_uploader_, ...) runs
run_posted_handshake(origin) ==
    /\ posted[origin] > 0
    /\ posted' = [posted EXCEPT ![origin] = @ - 1]
    /\ calls' = <<Call("MetaUploader::handle_handshake", origin, {})>>
    /\ op' = [name |-> "posted_handshake", subject |-> origin, ret |-> TRUE]
    /\ trip' = NoTrip
    /\ UNCHANGED <<registry, hsConn, msgConn, lastTrack, stored, replayPending, indexed,
                   ticker, everAttached>>

(* ---------------- the per-peer lambdas connected in handle_handshake ---------------- *)
\* the engine method each rcvd* lambda calls
route(msg) ==
    CASE msg = "rcvdChoke"         -> "Downloader::handleChoke"
      [] msg = "rcvdUnchoke"       -> "Downloader::handleUnchoke"
      [] msg = "rcvdInterested"    -> "Uploader::handle_interested"
      [] msg = "rcvdNotInterested" -> "Uploader::handle_not_interested"
      [] msg = "rcvdHaveMeta"      -> "MetaDownloader::handle_have_meta"
      [] msg = "rcvdHaveChunk"     -> "Downloader::notifyRemoteChunk"
      [] msg = "rcvdMetaRequest"   -> "MetaUploader::handle_meta_request"
      [] msg = "rcvdMetaReply"     -> "MetaDownloader::handle_meta_reply"
      [] msg = "rcvdBlockRequest"  -> "Uploader::handle_block_request"
      [] OTHER                     -> "Downloader::putBlock"

\* the session object emits one protocol signal; every live connection runs its lambda
rcvd(origin, msg) ==
    /\ calls' = Repeat(Call(route(msg), origin, {}), msgConn[origin])
    /\ op' = [name |-> msg, subject |-> origin, ret |-> (msgConn[origin] > 0)]
    /\ trip' = NoTrip
    /\ UNCHANGED <<registry, hsConn, msgConn, posted, lastTrack, stored, replayPending, indexed,
                   ticker, everAttached>>

(* ---------------- ChunkStorage::chunkAdded lambda (constructor) ---------------- *)
chunkAdded(ct_hash) ==
    /\ calls' = <<Call("notifyLocalChunk", ct_hash, {}),
                  Call("broadcast_chunk", ct_hash, remotes)>>
    /\ op' = [name |-> "chunkAdded", subject |-> ct_hash, ret |-> TRUE]
    /\ trip' = NoTrip
    /\ UNCHANGED <<registry, hsConn, msgConn, posted, lastTrack, stored, replayPending, indexed,
                   ticker, everAttached>>

(* ---------------- void FolderGroup::handle_indexed_meta(const SignedMeta&) ---------------- *)
\* handle_indexed_meta with the broadcast before the Downloader is notified
handle_indexed_meta_broadcast_first(smeta, bitfield) ==
    <<CallArg("make_bitfield", smeta, bitfield, {}),
      CallArg("broadcast_meta", smeta, bitfield, remotes),
      CallArg("notifyLocalMeta", smeta, bitfield, {})>>

\* the calls of one run; bitfield is what make_bitfield returned for this meta
handle_indexed_meta(smeta, bitfield) ==
    <<CallArg("make_bitfield", smeta, bitfield, {}),
      CallArg("notifyLocalMeta", smeta, bitfield, {}),
      CallArg("broadcast_meta", smeta, bitfield, remotes)>>

\* the loop of the replay task over MetaStorage::getMeta()
RECURSIVE replay_calls(_, _)
replay_calls(S, bitfields) ==
    IF S = {} THEN <<>>
    ELSE LET smeta == CHOOSE m \in S : TRUE
         IN handle_indexed_meta(smeta, bitfields[smeta]) \o replay_calls(S \ {smeta}, bitfields)

\* MetaStorage commits a new entry and emits metaAdded
metaAdded(smeta) ==
    /\ smeta \notin stored
    /\ stored' = stored \cup {smeta}
    /\ indexed' = [indexed EXCEPT ![smeta] = @ + 1]
    /\ \E bitfield \in Bitfields : calls' = handle_indexed_meta(smeta, bitfield)
    /\ op' = [name |-> "metaAdded", subject |-> smeta, ret |-> TRUE]
    /\ trip' = NoTrip
    /\ UNCHANGED <<registry, hsConn, msgConn, posted, lastTrack, replayPending,
                   ticker, everAttached>>

\* the task posted by QTimer::singleShot(0, this, ...) in the constructor runs
replay ==
    /\ replayPending
    /\ replayPending' = FALSE
    /\ indexed' = [m \in Metas |-> IF m \in stored THEN indexed[m] + 1 ELSE indexed[m]]
    /\ \E bitfields \in [stored -> Bitfields] : calls' = replay_calls(stored, bitfields)
    /\ op' = [name |-> "replay", subject |-> "-", ret |-> TRUE]
    /\ trip' = NoTrip
    /\ UNCHANGED <<registry, hsConn, msgConn, posted, lastTrack, stored,
                   ticker, everAttached>>

(* ---------------- void FolderGroup::push_state() ---------------- *)
\* the QJsonArray built by the loop over remotes_: one collect_state() per handle
RECURSIVE peers_array(_)
peers_array(S) ==
    IF S = {} THEN <<>>
    ELSE LET p2p_folder == CHOOSE p \in S : TRUE
         IN <<<<"collect_state", p2p_folder>>>> \o peers_array(S \ {p2p_folder})

\* push_state that reports the handshaken peers only
push_state_ready_only ==
    /\ state_pusher_
    /\ calls' = <<CallArg("folder_state_set", "peers", peers_array(remotes_ready_), {}),
                  CallArg("folder_state_set", "traffic_stats", <<"heartbeat_json">>, {})>>
    /\ op' = [name |-> "push_state", subject |-> "-", ret |-> TRUE]
    /\ trip' = NoTrip
    /\ UNCHANGED <<registry, hsConn, msgConn, posted, lastTrack, stored, replayPending, indexed,
                   ticker, everAttached>>

\* state_pusher_ times out and runs the slot
push_state ==
    /\ state_pusher_
    /\ calls' = <<CallArg("folder_state_set", "peers", peers_array(remotes_), {}),
                  CallArg("folder_state_set", "traffic_stats", <<"heartbeat_json">>, {})>>
    /\ op' = [name |-> "push_state", subject |-> "-", ret |-> TRUE]
    /\ trip' = NoTrip
    /\ UNCHANGED <<registry, hsConn, msgConn, posted, lastTrack, stored, replayPending, indexed,
                   ticker, everAttached>>

(* ---------------- FolderGroup::~FolderGroup() ---------------- *)
\* the destructor with the purge before the ticker is stopped
destructor_purges_first ==
    /\ ~purged
    /\ state_pusher_' = FALSE
    /\ purged' = TRUE
    /\ calls' = <<Call("folder_state_purge", "-", {}), Call("state_pusher_->stop", "-", {})>>
    /\ op' = [name |-> "~FolderGroup", subject |-> "-", ret |-> TRUE]
    /\ trip' = NoTrip
    /\ UNCHANGED <<registry, hsConn, msgConn, posted, lastTrack, stored, replayPending, indexed,
                   everAttached>>

destructor ==
    /\ ~purged
    /\ state_pusher_' = FALSE
    /\ purged' = TRUE
    /\ calls' = <<Call("state_pusher_->stop", "-", {}), Call("folder_state_purge", "-", {})>>
    /\ op' = [name |-> "~FolderGroup", subject |-> "-", ret |-> TRUE]
    /\ trip' = NoTrip
    /\ UNCHANGED <<registry, hsConn, msgConn, posted, lastTrack, stored, replayPending, indexed,
                   everAttached>>

(* ---------------- specifications ---------------- *)
\* the peer registry, the handshake wiring and the chunk fan-out
Next ==
    \/ \E p \in Peers : attach(p)
    \/ \E p \in Peers : detach(p)
    \/ \E p \in Peers : handshakeSuccess(p)
    \/ \E p \in Peers : run_posted_handshake(p)
    \/ \E c \in Chunks : chunkAdded(c)

Spec == Init /\ [][Next]_vars

\* the registry with the per-peer protocol signals
NextMsg ==
    \/ \E p \in Peers : attach(p)
    \/ \E p \in Peers : detach(p)
    \/ \E p \in Peers : handshakeSuccess(p)
    \/ \E p \in Peers, msg \in Messages : rcvd(p, msg)

SpecMsg == Init /\ [][NextMsg]_vars

\* the registry with the local index events
NextMeta ==
    \/ \E p \in Peers : attach(p)
    \/ \E p \in Peers : detach(p)
    \/ \E m \in Metas : metaAdded(m)
    \/ replay

SpecMeta == Init /\ [][NextMeta]_vars

\* the registry over three compatible handles with the state ticker and the destructor;
\* a destroyed FolderGroup receives no further calls
NextState ==
    \/ \E p \in Sessions : ~purged /\ attach(p)
    \/ \E p \in Sessions : ~purged /\ detach(p)
    \/ \E p \in Sessions : ~purged /\ handshakeSuccess(p)
    \/ push_state
    \/ destructor

SpecState == Init /\ [][NextState]_vars

(* ---------------- properties ---------------- *)
\* C1: attach(p) returns true exactly when p's handle, digest and endpoint were
\* all absent just before the call; a successful attach inserts p into the three
\* indices, adds one handshakeSuccess connection and emits attached(p) once.
C1_AttachContract ==
    [][\A p \in Peers :
        (op'.name = "attach" /\ op'.subject = p) =>
            /\ op'.ret <=> /\ p \notin remotes_
                           /\ PeerDigest(p) \notin p2p_folders_digests_
                           /\ PeerEndpoint(p) \notin p2p_folders_endpoints_
            /\ op'.ret => /\ remotes_' = remotes_ \cup {p}
                          /\ p2p_folders_digests_' = p2p_folders_digests_ \cup {PeerDigest(p)}
                          /\ p2p_folders_endpoints_' = p2p_folders_endpoints_ \cup {PeerEndpoint(p)}
                          /\ hsConn' = [hsConn EXCEPT ![p] = @ + 1]
                          /\ calls' = <<Call("attached", p, {})>>]_vars

\* a second handle was admitted next to an attached one
C1_Witness ==
    /\ op = [name |-> "attach", subject |-> "p3", ret |-> TRUE]
    /\ remotes_ = {"p1", "p3"}
    /\ hsConn["p3"] = 1
    /\ calls = <<Call("attached", "p3", {})>>

\* C2: a rejected attach changes nothing: the registry, the ready set and the
\* connections stay as they were and no signal is emitted; an attach of the
\* handle that was attached by the previous call is rejected.
C2_RejectedAttachNoEffect ==
    [][/\ (op'.name = "attach" /\ ~op'.ret) =>
            /\ UNCHANGED <<registry, hsConn, msgConn, posted, lastTrack>>
            /\ calls' = <<>>
       /\ (op.name = "attach" /\ op.ret /\ op'.name = "attach" /\ op'.subject = op.subject) =>
            ~op'.ret]_vars

\* the handle attached and handshaken before is offered again and refused
C2_Witness ==
    /\ op = [name |-> "attach", subject |-> "p1", ret |-> FALSE]
    /\ "p1" \in remotes_ready_
    /\ hsConn["p1"] = 1
    /\ calls = <<>>

\* C3 (as stated): every handle is in remotes iff its digest is in digests iff
\* its endpoint is in endpoints, and the three indices have the same size.
C3_Original ==
    /\ \A p \in Peers :
        /\ p \in remotes_ <=> PeerDigest(p) \in p2p_folders_digests_
        /\ PeerDigest(p) \in p2p_folders_digests_ <=> PeerEndpoint(p) \in p2p_folders_endpoints_
    /\ Cardinality(remotes_) = Cardinality(p2p_folders_digests_)
    /\ Cardinality(remotes_) = Cardinality(p2p_folders_endpoints_)

\* C3 (amended): digests is exactly the set of digests of the attached handles,
\* endpoints exactly the set of their endpoints, and the three indices have the
\* same size.
C3_Bijection ==
    /\ p2p_folders_digests_ = {PeerDigest(p) : p \in remotes_}
    /\ p2p_folders_endpoints_ = {PeerEndpoint(p) : p \in remotes_}
    /\ Cardinality(remotes_) = Cardinality(p2p_folders_digests_)
    /\ Cardinality(remotes_) = Cardinality(p2p_folders_endpoints_)

\* one of two attached handles has been detached
C3_Witness ==
    /\ op = [name |-> "detach", subject |-> "p1", ret |-> TRUE]
    /\ remotes_ = {"p3"}
    /\ p2p_folders_digests_ = {"d2"}
    /\ p2p_folders_endpoints_ = {"e2"}

\* C4: no two attached handles share a digest or an endpoint, and an attach of a
\* handle whose digest or whose endpoint belongs to another attached handle is
\* rejected.
C4_Distinct ==
    \A p, q \in remotes_ :
        p # q => PeerDigest(p) # PeerDigest(q) /\ PeerEndpoint(p) # PeerEndpoint(q)

C4_Rejects ==
    \A p \in Peers :
        (/\ op'.name = "attach" /\ op'.subject = p
         /\ \E q \in remotes_ \ {p} :
                PeerDigest(q) = PeerDigest(p) \/ PeerEndpoint(q) = PeerEndpoint(p))
        => ~op'.ret /\ remotes_' = remotes_

C4_NoSharedIdentity == []C4_Distinct /\ [][C4_Rejects]_vars

\* p2 has p1's digest and another endpoint, and is refused while p1 is attached
C4_Witness ==
    /\ op = [name |-> "attach", subject |-> "p2", ret |-> FALSE]
    /\ remotes_ = {"p1"}
    /\ PeerDigest("p2") = PeerDigest("p1")
    /\ PeerEndpoint("p2") # PeerEndpoint("p1")

\* C5: the ready set is a subset of remotes in every reachable state.
C5_ReadySubsetRemotes == remotes_ready_ \subseteq remotes_

\* C6: once detach(p) has returned, no connection made for p is left: neither
\* the handshakeSuccess connection, nor the rcvd* connections, nor a posted
\* MetaUploader::handle_handshake(p).
C6_DetachReleases ==
    op.name = "detach" =>
        /\ hsConn[op.subject] = 0
        /\ msgConn[op.subject] = 0
        /\ posted[op.subject] = 0

\* C7: a handle that has been detached and is not attached again is not
\* tracked by the Downloader: its last track/untrack call is untrackRemote.
C7_DetachedUntracked ==
    \A p \in Peers : p \notin remotes_ => lastTrack[p] # "track"

\* C8: detach of a handle that is not attached emits nothing, calls nothing and
\* leaves the registry alone, also when an attached handle has the same digest
\* or endpoint.
C8_DetachNoop ==
    [][\A p \in Peers :
        (op'.name = "detach" /\ op'.subject = p /\ p \notin remotes_) =>
            /\ calls' = <<>>
            /\ UNCHANGED <<registry, hsConn, msgConn, posted, lastTrack>>]_vars

\* p2 is detached without being attached while p1, of the same digest, is
C8_Witness ==
    /\ op = [name |-> "detach", subject |-> "p2", ret |-> FALSE]
    /\ remotes_ = {"p1"}
    /\ p2p_folders_digests_ = {PeerDigest("p2")}
    /\ calls = <<>>

\* C9: a HaveChunk broadcast caused by chunkAdded is addressed to ready peers only.
C9_BroadcastToReady ==
    op.name = "chunkAdded" =>
        \A i \in 1..Len(calls) :
            calls[i].name = "broadcast_chunk" => calls[i].to \subseteq remotes_ready_

\* C10: once the replay task has run, every meta MetaStorage knows has been
\* through handle_indexed_meta exactly once.
C10_ReplayExactlyOnce ==
    ~replayPending => \A m \in stored : indexed[m] = 1

\* C11: a state tick emits one folder_state_set "peers" and then one
\* folder_state_set "traffic_stats"; the peers array has exactly one blob for
\* each attached handle and none for any other; the tick changes no registry
\* state.
C11_PushState ==
    [][op'.name = "push_state" =>
        /\ Len(calls') = 2
        /\ calls'[1].name = "folder_state_set" /\ calls'[1].subject = "peers"
        /\ calls'[2].name = "folder_state_set" /\ calls'[2].subject = "traffic_stats"
        /\ Len(calls'[1].arg) = Cardinality(remotes_)
        /\ \A p \in Handles :
              Cardinality({i \in 1..Len(calls'[1].arg) :
                              calls'[1].arg[i] = <<"collect_state", p>>})
                 = IF p \in remotes_ THEN 1 ELSE 0
        /\ UNCHANGED <<registry, hsConn, msgConn, posted, lastTrack>>]_vars

\* a tick of a folder with three ready peers reports three blobs
C11_Witness ==
    /\ op.name = "push_state"
    /\ remotes_ready_ = Sessions
    /\ Cardinality(remotes_ready_) = 3
    /\ Len(calls[1].arg) = 3

\* C12: a handshakeSuccess of a handle that has never been attached runs no
\* handle_handshake: nothing is called, ready, the Downloader's tracking, the
\* rcvd* connections and the posted tasks stay as they were.
C12_EarlyHandshakeDropped ==
    [][\A p \in Peers :
        (op'.name = "handshakeSuccess" /\ op'.subject = p /\ p \notin everAttached) =>
            /\ ~op'.ret
            /\ calls' = <<>>
            /\ UNCHANGED <<registry, lastTrack, msgConn, posted>>]_vars

\* p2 was never admitted and raises handshakeSuccess while p1 is ready
C12_Witness ==
    /\ op = [name |-> "handshakeSuccess", subject |-> "p2", ret |-> FALSE]
    /\ "p2" \notin everAttached
    /\ "p1" \in remotes_ready_
    /\ msgConn["p2"] = 0

\* C13: detach of an attached handle emits detached(p) while p is still in
\* remotes, digests, endpoints (and ready, if handshaken), then calls
\* untrackRemote(p), and only then removes p: on return p is in none of the sets.
C13_DetachOrder ==
    [][\A p \in Peers :
        (op'.name = "detach" /\ op'.subject = p /\ op'.ret) =>
            /\ Len(calls') = 2
            /\ calls'[1].name = "detached" /\ calls'[1].subject = p
            /\ calls'[2].name = "untrackRemote" /\ calls'[2].subject = p
            /\ calls'[1].view = view /\ calls'[2].view = view
            /\ p \in calls'[1].view.remotes
            /\ PeerDigest(p) \in calls'[1].view.digests
            /\ PeerEndpoint(p) \in calls'[1].view.endpoints
            /\ p \in remotes_ready_ => p \in calls'[1].view.ready
            /\ p \notin remotes_' /\ p \notin remotes_ready_'
            /\ PeerDigest(p) \notin p2p_folders_digests_'
            /\ PeerEndpoint(p) \notin p2p_folders_endpoints_']_vars

\* a handshaken p1 has been detached next to p3: the slot saw it ready
C13_Witness ==
    /\ op = [name |-> "detach", subject |-> "p1", ret |-> TRUE]
    /\ "p1" \in calls[1].view.ready
    /\ "p1" \in calls[2].view.remotes
    /\ remotes_ = {"p3"}
    /\ "p1" \notin remotes_ready_

\* C14: a handshakeSuccess delivered to FolderGroup never runs
\* MetaUploader::handle_handshake in the same turn and posts it exactly once.
C14_DeferredOnce ==
    (op.name = "handshakeSuccess" /\ op.ret) =>
        /\ \A i \in 1..Len(calls) : calls[i].name # "MetaUploader::handle_handshake"
        /\ Cardinality({i \in 1..Len(calls) : calls[i].name = "post_handle_handshake"}) = 1

\* C15: every run of handle_indexed_meta calls make_bitfield once, then
\* notifyLocalMeta, then broadcast_meta, the last two with the bitfield the
\* first returned, and addresses the broadcast to exactly the attached handles;
\* metaAdded gives one run for its meta, the replay one run per stored meta.
C15_IndexedMetaOrder ==
    op.name \in {"metaAdded", "replay"} =>
        /\ Len(calls) % 3 = 0
        /\ \A k \in 0..((Len(calls) \div 3) - 1) :
              LET made == calls[3 * k + 1]
                  told == calls[3 * k + 2]
                  sent == calls[3 * k + 3]
              IN /\ made.name = "make_bitfield"
                 /\ told.name = "notifyLocalMeta" /\ told.subject = made.subject
                 /\ sent.name = "broadcast_meta" /\ sent.subject = made.subject
                 /\ told.arg = made.arg /\ sent.arg = made.arg
                 /\ sent.to = remotes_
        /\ op.name = "metaAdded" => Len(calls) = 3 /\ calls[1].subject = op.subject
        /\ op.name = "replay" =>
              /\ Len(calls) = 3 * Cardinality(stored)
              /\ {calls[3 * k + 1].subject : k \in 0..((Len(calls) \div 3) - 1)} = stored

\* the replay of two metas with different bitfields reaches two attached peers
C15_Witness ==
    /\ op.name = "replay"
    /\ stored = Metas
    /\ Cardinality(remotes_) = 2
    /\ Len(calls) = 6
    /\ calls[2].arg # calls[5].arg
    /\ calls[6].to = remotes_

\* C16: a protocol message of a peer reaches an engine only if that peer is in
\* the ready set and trackRemote was the Downloader's last word about it.
C16_MessagesOnlyWhenReady ==
    (op.name \in Messages /\ Len(calls) > 0) =>
        /\ op.subject \in remotes_ready_
        /\ lastTrack[op.subject] = "track"

\* C17: a message emitted once by a ready peer runs its engine handler exactly
\* once, and a handshakeSuccess of an attached peer runs handle_handshake
\* exactly once.
C17_DeliveredOnce ==
    /\ (op.name \in Messages /\ op.subject \in remotes_ready_) =>
          calls = <<Call(route(op.name), op.subject, {})>>
    /\ (op.name = "handshakeSuccess" /\ op.subject \in remotes_) =>
          Cardinality({i \in 1..Len(calls) : calls[i].name = "trackRemote"}) = 1

\* C18: attach(p), any handshakeSuccess(p), then detach(p) puts remotes,
\* digests, endpoints and ready back to what they were before the attach, and
\* attach(p) would be admitted again.
C18_RoundTrip ==
    [][\A p \in Peers :
        (op'.name = "detach" /\ op'.subject = p /\ trip.peer = p) =>
            /\ registry' = trip.before
            /\ p \notin remotes_'
            /\ PeerDigest(p) \notin p2p_folders_digests_'
            /\ PeerEndpoint(p) \notin p2p_folders_endpoints_']_vars

\* C19: "secret" is set by the constructor and by nothing else; the destructor
\* stops the ticker and then purges; only the destructor purges, and once the
\* folder is purged the ticker is stopped, so no folder_state_set follows.
C19_Constructed ==
    /\ op.name = "FolderGroup"
    /\ calls = <<Call("folder_state_set", "secret", {})>>
    /\ state_pusher_ = TRUE
    /\ purged = FALSE

C19_Step ==
    /\ \A i \in 1..Len(calls') :
          /\ ~(calls'[i].name = "folder_state_set" /\ calls'[i].subject = "secret")
          /\ calls'[i].name = "folder_state_purge" => op'.name = "~FolderGroup"
          /\ calls'[i].name = "folder_state_set" => ~purged
    /\ op'.name = "~FolderGroup" =>
          /\ ~purged /\ purged'
          /\ calls' = <<Call("state_pusher_->stop", "-", {}), Call("folder_state_purge", "-", {})>>
    /\ purged' => ~state_pusher_'

C19_Lifecycle == C19_Constructed /\ [][C19_Step]_vars

\* a folder with three ready peers has been shut down
C19_Witness ==
    /\ op.name = "~FolderGroup"
    /\ purged /\ ~state_pusher_
    /\ Cardinality(remotes_ready_) = 3
====
